---- MODULE Spec2Model ----
(***************************************************************************)
(* A model of kiwiko123/python-tools: the binary-heap PriorityQueue of     *)
(* data_structures/queues.py and the UndirectedGraph of                    *)
(* data_structures/graphs/graph.py with its Vertex / UndirectedEdge types  *)
(* (data_structures/graphs/info.py).                                       *)
(*                                                                         *)
(* Python lists are 0-based, TLA+ sequences 1-based: position i of a       *)
(* Python list c is c[i + 1] here (operator At).                           *)
(***************************************************************************)
EXTENDS Integers, Sequences, FiniteSets, Bags, TLC

VARIABLES
    container,      \* PriorityQueue._container (the heap array)
    keyfn,          \* PriorityQueue._key (which key function was given)
    reverse,        \* PriorityQueue._reverse
    qret,           \* the last queue call: [op, arg, val, err], arg and val
                    \* as tuples (<<>> for no argument / a None result)
    adjacency_map,  \* _BaseGraph._adjacency_map, in insertion order
    root,           \* _BaseGraph._root: the identity of a vertex object, 0 for None
    objs,           \* the Vertex objects allocated so far, by identity
    gret,           \* outcome of the last graph call (see GCall)
    hashseed        \* the per-process seed of Python's string hash

qvars == <<container, keyfn, reverse, qret>>
gvars == <<adjacency_map, root, objs, gret, hashseed>>
vars == <<container, keyfn, reverse, qret, adjacency_map, root, objs, gret, hashseed>>


(***************************************************************************)
(* Bounds of the model.                                                    *)
(***************************************************************************)
MaxItem == 2        \* queue items are 0..MaxItem
MaxQueue == 6       \* push is not offered beyond this length
MaxInit == 3        \* longest initial collection handed to the initializer
MaxObjs == 4        \* Vertex objects ever allocated
MaxEdges == 4       \* entries of all incident edge sets together
MaxSeed == 1        \* hash seeds are 0..MaxSeed

Items == 0..MaxItem
KeyFns == {"identity", "parity"}

(***************************************************************************)
(* PriorityQueue: the pure parts.                                          *)
(***************************************************************************)
At(c, i) == c[i + 1]

Swap(c, i, j) == [c EXCEPT ![i + 1] = c[j + 1], ![j + 1] = c[i + 1]]

\* the 'key' argument of __init__: the default lambda x: x, or a key that
\* maps several items to one key (here x % 2)
_key(x) == IF keyfn = "identity" THEN x ELSE x % 2

\* mutant of _gt: the reverse flag is ignored
_gt_ignoring_reverse(a, b) == a > b

\* self._gt = lt if reverse else gt, with the default operator.gt / operator.lt
_gt(a, b) == IF reverse THEN a < b ELSE a > b

_in_heap(c, i) == 0 <= i /\ i < Len(c)

_parent_of(i) == (i - 1) \div 2

_left_child(i) == 2 * i + 1

_right_child(i) == 2 * i + 2

_compare(c, a, b) == _gt(_key(At(c, a)), _key(At(c, b)))

RECURSIVE _sift_up(_, _)
_sift_up(c, i) ==
    LET parent == _parent_of(i) IN
    IF _in_heap(c, i) /\ _in_heap(c, parent) /\ _compare(c, i, parent)
    THEN _sift_up(Swap(c, i, parent), parent)
    ELSE c

\* mutant of _sift_down: one swap with the larger child, and no further
_sift_down_one_level(c, i) ==
    LET left == _left_child(i)
        right == _right_child(i)
        larger == IF _in_heap(c, right) /\ _compare(c, right, left) THEN right
                  ELSE IF _in_heap(c, left) THEN left
                  ELSE -1
    IN  IF larger = -1 THEN c
        ELSE IF _compare(c, larger, i) THEN Swap(c, i, larger)
        ELSE c

RECURSIVE _sift_down(_, _)
_sift_down(c, i) ==
    LET left == _left_child(i)
        right == _right_child(i)
        larger == IF _in_heap(c, right) /\ _compare(c, right, left) THEN right
                  ELSE IF _in_heap(c, left) THEN left
                  ELSE -1
    IN  IF larger = -1 THEN c
        ELSE IF _compare(c, larger, i) THEN _sift_down(Swap(c, i, larger), larger)
        ELSE c

\* for i in range(self._parent_of(len(self)), -1, -1): self._sift_down(i)
RECURSIVE HeapifyFrom(_, _)
HeapifyFrom(c, i) == IF i < 0 THEN c ELSE HeapifyFrom(_sift_down(c, i), i - 1)

_heapify(c) == HeapifyFrom(c, _parent_of(Len(c)))

\* mutant of RemoveAt: the moved element is only sifted down
RemoveAt_without_sift_up(c, index) ==
    LET c1 == [c EXCEPT ![index + 1] = c[Len(c)]]
        c2 == SubSeq(c1, 1, Len(c1) - 1)
    IN  _sift_down(c2, index)

\* the body of remove past its two checks
\* mutant of RemoveAt: the last element is dropped and the one at 'index' kept
RemoveAt_dropping_last(c, index) == SubSeq(c, 1, Len(c) - 1)

RemoveAt(c, index) ==
    LET c1 == [c EXCEPT ![index + 1] = c[Len(c)]]
        c2 == SubSeq(c1, 1, Len(c1) - 1)
    IN  _sift_down(_sift_up(c2, index), index)

\* mutant of remove: a negative index counts from the end of the list, as
\* list indexing does, instead of being rejected
remove_counting_from_end(c, index) ==
    IF Len(c) = 0 THEN [err |-> "ValueError", c |-> c]
    ELSE IF index >= Len(c) \/ index < -Len(c) THEN [err |-> "IndexError", c |-> c]
    ELSE [err |-> "none", c |-> RemoveAt(c, IF index < 0 THEN Len(c) + index ELSE index)]

\* remove(index): the error it raises ("none" if it returns), and the list after
remove(c, index) ==
    IF Len(c) = 0 THEN [err |-> "ValueError", c |-> c]
    ELSE IF ~_in_heap(c, index) THEN [err |-> "IndexError", c |-> c]
    ELSE [err |-> "none", c |-> RemoveAt(c, index)]

push(c, item) == _sift_up(Append(c, item), Len(c))

pop(c) ==
    IF Len(c) = 0 THEN [err |-> "ValueError", val |-> <<>>, c |-> c]
    ELSE LET r == remove(c, 0) IN [err |-> r.err, val |-> <<At(c, 0)>>, c |-> r.c]

\* mutant of top: the last element of the list instead of the first
top_of_last(c) ==
    IF Len(c) = 0 THEN [err |-> "ValueError", val |-> <<>>]
    ELSE [err |-> "none", val |-> <<At(c, Len(c) - 1)>>]

top(c) ==
    IF Len(c) = 0 THEN [err |-> "ValueError", val |-> <<>>]
    ELSE [err |-> "none", val |-> <<At(c, 0)>>]

\* the order repeated pops produce
RECURSIVE PopAll(_)
PopAll(c) == IF Len(c) = 0 THEN <<>> ELSE pop(c).val \o PopAll(pop(c).c)

\* mutant of view: the contents in pop order instead of the list itself
view_in_pop_order(c) == PopAll(c)

\* tuple(self._container)
view(c) == c

\* mutant of find: position 0 instead of -1 when the item is not there
find_or_zero(c, item) ==
    IF \E i \in 0..(Len(c) - 1) : At(c, i) = item
    THEN CHOOSE i \in 0..(Len(c) - 1) :
            At(c, i) = item /\ \A j \in 0..(i - 1) : At(c, j) # item
    ELSE 0

\* self._container.index(item): the first position holding item, else -1
find(c, item) ==
    IF \E i \in 0..(Len(c) - 1) : At(c, i) = item
    THEN CHOOSE i \in 0..(Len(c) - 1) :
            At(c, i) = item /\ \A j \in 0..(i - 1) : At(c, j) # item
    ELSE -1

(***************************************************************************)
(* PriorityQueue: one action per public method.  The methods act on a      *)
(* queue object whose fields are those lines 128-135 of __init__ set up:   *)
(* the given key and reverse flag, and a container holding the heapified   *)
(* initial items (empty when no or an empty iterable is given).            *)
(***************************************************************************)
RECURSIVE SeqsUpTo(_)
SeqsUpTo(n) ==
    IF n = 0 THEN {<<>>}
    ELSE LET S == SeqsUpTo(n - 1) IN
         S \cup {Append(s, x) : s \in {t \in S : Len(t) = n - 1}, x \in Items}

\* if iterable: append every item, then self._heapify()
InitialContainer(iterable) == IF Len(iterable) > 0 THEN _heapify(iterable) ELSE <<>>

QCall(op, arg, val, err) == [op |-> op, arg |-> arg, val |-> val, err |-> err]

\* the last graph call: its name, a query's arguments, the error it raised
\* ("none" if it returned) and what it returned, by type: a truth value, a
\* number or a sequence (of vertex values: a path).  For dijkstra the number
\* is the count of vertices its main loop popped.
GCall(op, args, err, b, n, path) ==
    [op |-> op, args |-> args, err |-> err, b |-> b, n |-> n, path |-> path]

\* root is None
NoVertex == 0

GIdle ==
    /\ adjacency_map = <<>>
    /\ root = NoVertex
    /\ objs = <<>>
    /\ gret = GCall("init", <<>>, "none", FALSE, 0, <<>>)
    /\ hashseed = 0

QInit ==
    /\ keyfn \in KeyFns
    /\ reverse \in BOOLEAN
    /\ \E iterable \in SeqsUpTo(MaxInit) : container = InitialContainer(iterable)
    /\ qret = QCall("init", <<>>, <<>>, "none")

Push(item) ==
    /\ Len(container) < MaxQueue
    /\ container' = push(container, item)
    /\ qret' = QCall("push", <<item>>, <<>>, "none")
    /\ UNCHANGED <<keyfn, reverse>>
    /\ UNCHANGED gvars

Pop ==
    /\ container' = pop(container).c
    /\ qret' = QCall("pop", <<>>, pop(container).val, pop(container).err)
    /\ UNCHANGED <<keyfn, reverse>>
    /\ UNCHANGED gvars

Top ==
    /\ qret' = QCall("top", <<>>, top(container).val, top(container).err)
    /\ UNCHANGED <<container, keyfn, reverse>>
    /\ UNCHANGED gvars

Remove(index) ==
    /\ container' = remove(container, index).c
    /\ qret' = QCall("remove", <<index>>, <<>>, remove(container, index).err)
    /\ UNCHANGED <<keyfn, reverse>>
    /\ UNCHANGED gvars

View ==
    /\ qret' = QCall("view", <<>>, view(container), "none")
    /\ UNCHANGED <<container, keyfn, reverse>>
    /\ UNCHANGED gvars

Find(item) ==
    /\ qret' = QCall("find", <<item>>, <<find(container, item)>>, "none")
    /\ UNCHANGED <<container, keyfn, reverse>>
    /\ UNCHANGED gvars

InitPQ == QInit /\ GIdle

NextPQ ==
    \/ \E item \in Items : Push(item)
    \/ Pop
    \/ Top
    \/ \E index \in -1..MaxQueue : Remove(index)
    \/ View
    \/ \E item \in Items : Find(item)

SpecPQ == InitPQ /\ [][NextPQ]_vars

(***************************************************************************)
(* PriorityQueue: the properties checked under SpecPQ.                     *)
(***************************************************************************)
\* the configured ordering, stated apart from the code's _gt: key a has
\* higher priority than key b (greater for reverse = False, less for True)
Dominates(a, b) == (~reverse /\ a > b) \/ (reverse /\ a < b)

KeyOf(x) == IF keyfn = "identity" THEN x ELSE x % 2

BagOf(c) == [x \in {c[i] : i \in DOMAIN c} |-> Cardinality({i \in DOMAIN c : c[i] = x})]

HeapInvariant(c) ==
    \A i \in 0..(Len(c) - 1) : \A child \in {2 * i + 1, 2 * i + 2} :
        child < Len(c) => ~Dominates(KeyOf(At(c, child)), KeyOf(At(c, i)))

OrderedByPriority(s) ==
    \A i, j \in DOMAIN s : i < j => ~Dominates(KeyOf(s[j]), KeyOf(s[i]))

\* C1: in every state reached by push, pop and remove calls from a
\* constructed queue, no child's key dominates its parent's key under the
\* configured ordering.
C1_HeapInvariant == HeapInvariant(container)

\* C1 witness: remove(3) has succeeded on a six-element queue whose keys
\* are not all equal (the moved last element came from the other subtree).
C1_Witness ==
    /\ qret.op = "remove" /\ qret.err = "none" /\ qret.arg = <<3>>
    /\ Len(container) = 5
    /\ \E i \in 1..5 : KeyOf(container[i]) # KeyOf(container[1])

C3_PopReturnsTop ==
    [][(qret'.op = "pop" /\ Len(container) > 0) =>
         /\ qret'.err = "none"
         /\ Len(qret'.val) = 1
         /\ \E i \in DOMAIN container : container[i] = qret'.val[1]
         /\ \A i \in DOMAIN container :
                ~Dominates(KeyOf(container[i]), KeyOf(qret'.val[1]))
         /\ BagOf(container') (+) BagOf(qret'.val) = BagOf(container)
         /\ Len(container') = Len(container) - 1]_vars

\* C3 witness: pop() has returned from a queue that held elements of
\* different keys and still holds three or more.
C3_Witness ==
    /\ qret.op = "pop" /\ qret.err = "none"
    /\ Len(container) >= 3
    /\ \E i \in DOMAIN container : KeyOf(container[i]) # KeyOf(qret.val[1])

\* C4: pop() and top() on an empty queue raise the empty-queue error
\* (ValueError) and leave the queue empty; top() on a non-empty queue returns
\* what the next pop() returns and leaves the contents as they are.
C4_EmptyAndTop ==
    [][/\ (qret'.op \in {"pop", "top"} /\ Len(container) = 0) =>
              (qret'.err = "ValueError" /\ container' = <<>>)
       /\ (qret'.op = "top" /\ Len(container) > 0) =>
              /\ qret'.err = "none"
              /\ container' = container
              /\ qret'.val = pop(container').val]_vars

\* C4 witness: a pop() or top() has failed on the empty queue.
C4_Witness ==
    qret.op \in {"pop", "top"} /\ qret.err = "ValueError" /\ container = <<>>

(***************************************************************************)
(* Vertex and UndirectedEdge (graphs/info.py).  A Vertex object is an      *)
(* entry of objs, named by its position (its identity).  An edge refers to *)
(* its two vertices by identity.  A Python set holds distinct edge objects *)
(* that may agree on origin, destination and weight, so an entry of an     *)
(* incident edge set carries, besides these three, the number of the copy  *)
(* it is (1 for the first such edge added to the set, 2 for the next).     *)
(***************************************************************************)
\* the vertex values and edge weights the calls are made with
Values == {1, 2}
Weights == {-1, 1}
Seeds == 0..MaxSeed

\* dst_vertex_value=None
NoDst == 0

VertexNotFound == "GraphError: vertex does not exist"
NegativeWeightCycle == "GraphError: negative-weight cycle"

\* Vertex.__init__
Vertex(value) == [value |-> value, edges |-> {}]

\* _BaseEdge.__init__
Edge(origin, destination, weight) ==
    [origin |-> origin, destination |-> destination, weight |-> weight]

\* the edges of s that agree with e on origin, destination and weight
Copies(s, e) ==
    {x \in s : x.origin = e.origin /\ x.destination = e.destination /\ x.weight = e.weight}

\* e as the entry it becomes when added to s
Entry(s, e) ==
    [origin |-> e.origin, destination |-> e.destination, weight |-> e.weight,
     copy |-> Cardinality(Copies(s, e)) + 1]

\* hash() of a str, which CPython salts with a per-process seed: some
\* function of the string and the seed.  The strings hashed here are
\* 'UndirectedEdge' (code 0) and 'Vertex(<value>)' (code value + 1).
HashStr(code) == ((code + 1) * (2 * hashseed + 3)) % 7

\* hash() of an int: the int itself, except that hash(-1) is -2
HashInt(n) == IF n = -1 THEN -2 ELSE n

\* Vertex.__hash__: hash('Vertex({0})'.format(repr(self.value)))
Vertex_hash(o, v) == HashStr(o[v].value + 1)

\* Vertex.__eq__
Vertex_eq(o, a, b) == o[a].value = o[b].value

\* mutant of UndirectedEdge_eq: origins and destinations compared in place
UndirectedEdge_eq_same_direction(o, e1, e2) ==
    /\ Vertex_eq(o, e1.origin, e2.origin)
    /\ Vertex_eq(o, e1.destination, e2.destination)
    /\ e1.weight = e2.weight

\* UndirectedEdge.__eq__
UndirectedEdge_eq(o, e1, e2) ==
    /\ Vertex_eq(o, e1.origin, e2.destination)
    /\ Vertex_eq(o, e1.destination, e2.origin)
    /\ e1.weight = e2.weight

\* UndirectedEdge.__hash__
UndirectedEdge_hash(o, e) ==
    HashStr(0) + Vertex_hash(o, e.origin) + Vertex_hash(o, e.destination)
        + HashInt(e.weight)

\* e in s, for a set s of edges and a newly made edge e: an entry matches
\* when its hash equals e's and it is e itself (never, e is new) or == e
SetContains(o, s, e) ==
    \E x \in s :
        UndirectedEdge_hash(o, x) = UndirectedEdge_hash(o, e) /\ UndirectedEdge_eq(o, x, e)

\* s.add(e)
SetAdd(o, s, e) == IF SetContains(o, s, e) THEN s ELSE s \cup {Entry(s, e)}

(***************************************************************************)
(* UndirectedGraph (graphs/graph.py).  The adjacency map is a sequence of  *)
(* [key, vertex] entries in insertion order, as a Python dict keeps them.  *)
(***************************************************************************)
Keys(m) == {m[i].key : i \in DOMAIN m}

\* _BaseGraph.__contains__
contains(m, value) == value \in Keys(m)

\* self._adjacency_map[value]
Lookup(m, value) == m[CHOOSE i \in DOMAIN m : m[i].key = value].vertex

\* _BaseGraph.__getitem__
getitem(m, value) ==
    IF ~contains(m, value) THEN [err |-> VertexNotFound, vertex |-> NoVertex]
    ELSE [err |-> "none", vertex |-> Lookup(m, value)]

\* self._adjacency_map[value] = vertex: a new key goes last, a key already
\* there keeps its place
SetItem(m, value, vertex) ==
    IF contains(m, value)
    THEN [i \in DOMAIN m |-> IF m[i].key = value THEN [key |-> value, vertex |-> vertex] ELSE m[i]]
    ELSE Append(m, [key |-> value, vertex |-> vertex])

\* mutant of add_edge: a destination that is not in the graph is made on the
\* spot (Vertex(dst_value)) and never entered into the map
add_edge_making_destination(m, o, origin_value, dst_value, weight) ==
    IF ~contains(m, origin_value) THEN [err |-> VertexNotFound, objs |-> o]
    ELSE LET origin == Lookup(m, origin_value)
             known == contains(m, dst_value)
             o0 == IF known THEN o ELSE Append(o, Vertex(dst_value))
             destination == IF known THEN Lookup(m, dst_value) ELSE Len(o0)
             outgoing == Edge(origin, destination, weight)
             incoming == Edge(destination, origin, weight)
             o1 == [o0 EXCEPT ![origin].edges = SetAdd(o0, @, outgoing)]
             o2 == [o1 EXCEPT ![destination].edges = SetAdd(o1, @, incoming)]
         IN  [err |-> "none", objs |-> o2]

\* UndirectedGraph.add_edge: the error raised ("none" if it returns) and the
\* vertex objects afterwards
add_edge(m, o, origin_value, dst_value, weight) ==
    IF getitem(m, origin_value).err # "none" THEN [err |-> VertexNotFound, objs |-> o]
    ELSE IF getitem(m, dst_value).err # "none" THEN [err |-> VertexNotFound, objs |-> o]
    ELSE LET origin == getitem(m, origin_value).vertex
             destination == getitem(m, dst_value).vertex
             outgoing == Edge(origin, destination, weight)
             incoming == Edge(destination, origin, weight)
             o1 == [o EXCEPT ![origin].edges = SetAdd(o, @, outgoing)]
             o2 == [o1 EXCEPT ![destination].edges = SetAdd(o1, @, incoming)]
         IN  [err |-> "none", objs |-> o2]

\* _BaseGraph.add_vertex: the map, the root and the vertex objects afterwards
add_vertex(m, r, o, new_value, dst_value, weight) ==
    LET known == contains(m, new_value)
        o1 == IF known THEN o ELSE Append(o, Vertex(new_value))
        origin == IF known THEN getitem(m, new_value).vertex ELSE Len(o1)
        r1 == IF Len(m) = 0 THEN origin ELSE r
        m1 == SetItem(m, new_value, origin)
    IN  IF dst_value = NoDst THEN [map |-> m1, root |-> r1, objs |-> o1]
        ELSE LET o2 == Append(o1, Vertex(dst_value))
                 m2 == SetItem(m1, dst_value, Len(o2))
             IN  [map |-> m2, root |-> r1,
                  objs |-> add_edge(m2, o2, new_value, dst_value, weight).objs]

\* UndirectedGraph.has_edge: the error raised, and the truth value returned
has_edge(m, o, origin_value, dst_value, weight) ==
    IF getitem(m, origin_value).err # "none" THEN [err |-> VertexNotFound, b |-> FALSE]
    ELSE IF getitem(m, dst_value).err # "none" THEN [err |-> VertexNotFound, b |-> FALSE]
    ELSE LET origin == getitem(m, origin_value).vertex
             destination == getitem(m, dst_value).vertex
             outgoing == Edge(origin, destination, weight)
         IN  [err |-> "none", b |-> SetContains(o, o[origin].edges, outgoing)]

\* UndirectedGraph._dfs_is_reachable.  explored is a set of Vertex objects,
\* which hash and compare by value: it is modelled as the set of their
\* values.  A set is iterated in an order the program does not fix, so the
\* result is the set of the outcomes [res, explored] over all orders.
RECURSIVE _dfs_is_reachable(_, _, _, _)
RECURSIVE DfsReachableLoop(_, _, _, _, _)
_dfs_is_reachable(o, vertex, destination, explored) ==
    IF Vertex_eq(o, vertex, destination) THEN {[res |-> TRUE, explored |-> explored]}
    ELSE DfsReachableLoop(o, o[vertex].edges, destination, explored \cup {o[vertex].value}, FALSE)

\* for edge in root.edges: ..., with the edges in 'todo' still to come
DfsReachableLoop(o, todo, destination, explored, result) ==
    IF todo = {} THEN {[res |-> result, explored |-> explored]}
    ELSE UNION {
        LET opposite == edge.destination IN
        IF o[opposite].value \in explored
        THEN DfsReachableLoop(o, todo \ {edge}, destination, explored, result)
        ELSE UNION {
            IF r.res THEN {[res |-> TRUE, explored |-> r.explored]}
            ELSE DfsReachableLoop(o, todo \ {edge}, destination, r.explored, FALSE)
            : r \in _dfs_is_reachable(o, opposite, destination, explored)}
        : edge \in todo}

\* UndirectedGraph.is_reachable: the outcomes [err, b] it can have
is_reachable(m, o, origin_value, dst_value) ==
    IF getitem(m, origin_value).err # "none" THEN {[err |-> VertexNotFound, b |-> FALSE]}
    ELSE IF getitem(m, dst_value).err # "none" THEN {[err |-> VertexNotFound, b |-> FALSE]}
    ELSE {[err |-> "none", b |-> r.res] :
            r \in _dfs_is_reachable(o, getitem(m, origin_value).vertex,
                                    getitem(m, dst_value).vertex, {})}

\* PriorityQueue's container_type setter (queues.py, lines 97-99): it raises
PriorityQueue_container_type_setter == "ValueError"

\* _BaseQueue.__init__ (queues.py, lines 14-15) assigns self.container_type,
\* which on a PriorityQueue object runs the setter above
BaseQueue_init == PriorityQueue_container_type_setter

\* PriorityQueue.__init__ up to line 127: the error the construction ends with
PriorityQueue_init == IF BaseQueue_init # "none" THEN BaseQueue_init ELSE "none"

\* _BaseGraph.dijkstra: the error raised, the path returned and the number
\* of vertices the main loop popped (table.pop(), line 108).  Line 104 looks
\* the origin up; line 105 constructs the PriorityQueue, which raises, so
\* that lines 107-125 are never reached.
dijkstra(m, o, origin_value, dst_value) ==
    IF getitem(m, origin_value).err # "none"
    THEN [err |-> VertexNotFound, path |-> <<>>, pops |-> 0]
    ELSE [err |-> PriorityQueue_init, path |-> <<>>, pops |-> 0]

\* math.inf, with inf + w = inf
Inf == 1000000

Plus(label, weight) == IF label = Inf THEN Inf ELSE label + weight

\* _BaseGraph.vertices: the mapped vertex objects
vertices(m) == {m[i].vertex : i \in DOMAIN m}

\* sorted(self.vertices(), key=lambda x: x.value)
RECURSIVE SortedByValue(_, _)
SortedByValue(o, vs) ==
    IF vs = {} THEN <<>>
    ELSE LET least == CHOOSE v \in vs : \A u \in vs : o[v].value <= o[u].value
         IN  <<least>> \o SortedByValue(o, vs \ {least})

\* set.union(acc, s): the entries of s join a copy of acc, each unless an
\* entry already there has its hash and is it or == it.  (No two entries of
\* one incident set are ==, so the order in which s is read is immaterial.)
SetUnion(o, acc, s) ==
    acc \cup {x \in s : ~\E y \in acc :
                 /\ UndirectedEdge_hash(o, y) = UndirectedEdge_hash(o, x)
                 /\ (y = x \/ UndirectedEdge_eq(o, y, x))}

RECURSIVE UnionAll(_, _, _)
UnionAll(o, vs, acc) ==
    IF vs = <<>> THEN acc ELSE UnionAll(o, Tail(vs), SetUnion(o, acc, o[Head(vs)].edges))

\* UndirectedGraph.edges
edges(m, o) == UnionAll(o, SortedByValue(o, vertices(m)), {})

\* the orders in which a set can be iterated
RECURSIVE Orders(_)
Orders(S) ==
    IF S = {} THEN {<<>>}
    ELSE UNION {{<<x>> \o p : p \in Orders(S \ {x})} : x \in S}

\* lines 140-145: one edge relaxed; labels and parents are keyed by vertices,
\* which hash and compare by value
Relax(o, edge, st) ==
    LET start == edge.origin
        end == edge.destination
        weighted_distance == Plus(st.labels[o[start].value], edge.weight)
    IN  IF weighted_distance < st.labels[o[end].value]
        THEN [labels |-> [st.labels EXCEPT ![o[end].value] = weighted_distance],
              parents |-> [st.parents EXCEPT ![o[end].value] = start]]
        ELSE st

\* for edge in self.edges(): ...
RECURSIVE RelaxAll(_, _, _)
RelaxAll(o, es, st) ==
    IF es = <<>> THEN st ELSE RelaxAll(o, Tail(es), Relax(o, Head(es), st))

\* while i < stop_limit: ...; i += 1
RECURSIVE RelaxRounds(_, _, _, _, _)
RelaxRounds(o, es, st, i, stop_limit) ==
    IF i < stop_limit THEN RelaxRounds(o, es, RelaxAll(o, es, st), i + 1, stop_limit)
    ELSE st

\* lines 120-124 and 149-153: the parents followed back from 'start'; the
\* values of the vertices met, first to last.  'fuel' stops a chain that
\* runs in a circle, which the loop would follow for ever.
RECURSIVE PathTo(_, _, _, _)
PathTo(o, parents, start, fuel) ==
    IF start = NoVertex THEN [err |-> "none", path |-> <<>>]
    ELSE IF fuel = 0 THEN [err |-> "no return", path |-> <<>>]
    ELSE LET rest == PathTo(o, parents, parents[o[start].value], fuel - 1)
         IN  [err |-> rest.err, path |-> Append(rest.path, o[start].value)]

\* _BaseGraph.bellman_ford: the outcomes [err, path] it can have, one for
\* each order in which the set self.edges() can be iterated
bellman_ford(m, o, origin_value, dst_value) ==
    IF getitem(m, origin_value).err # "none" THEN {[err |-> VertexNotFound, path |-> <<>>]}
    ELSE {
        LET st0 == [labels |-> [v \in Keys(m) |-> IF v = origin_value THEN 0 ELSE Inf],
                    parents |-> [v \in Keys(m) |-> NoVertex]]
            st == RelaxRounds(o, es, st0, 0, Len(m) - 1)
        IN  IF \A k \in DOMAIN es :
                   st.labels[o[es[k].destination].value]
                       <= Plus(st.labels[o[es[k].origin].value], es[k].weight)
            THEN IF getitem(m, dst_value).err # "none"
                 THEN [err |-> VertexNotFound, path |-> <<>>]
                 ELSE PathTo(o, st.parents, getitem(m, dst_value).vertex, Len(m) + 1)
            ELSE [err |-> NegativeWeightCycle, path |-> <<>>]
        : es \in Orders(edges(m, o))}

RECURSIVE TotalEdges(_, _)
TotalEdges(o, n) == IF n = 0 THEN 0 ELSE Cardinality(o[n].edges) + TotalEdges(o, n - 1)

\* the model's bounds on the objects and on the entries of their edge sets
WithinBounds(o) == Len(o) <= MaxObjs /\ TotalEdges(o, Len(o)) <= MaxEdges

\* UndirectedGraph._dfs_is_connected: the explored sets it can end with, one
\* for each order in which the sets root.edges can be iterated.  explored is
\* a set of Vertex objects, which hash and compare by value: it is modelled
\* as the set of their values.
RECURSIVE _dfs_is_connected(_, _, _)
RECURSIVE DfsConnectedLoop(_, _, _)
_dfs_is_connected(o, vertex, explored) ==
    DfsConnectedLoop(o, o[vertex].edges, explored \cup {o[vertex].value})

\* for edge in root.edges: ..., with the edges in 'todo' still to come
DfsConnectedLoop(o, todo, explored) ==
    IF todo = {} THEN {explored}
    ELSE UNION {
        LET destination == edge.destination IN
        IF o[destination].value \in explored
        THEN DfsConnectedLoop(o, todo \ {edge}, explored)
        ELSE UNION {DfsConnectedLoop(o, todo \ {edge}, ex) :
                        ex \in _dfs_is_connected(o, destination, explored)}
        : edge \in todo}

\* UndirectedGraph.is_connected: the truth values it can return
is_connected(m, r, o) ==
    IF Len(m) = 0 THEN {FALSE}
    ELSE {Cardinality(ex) = Len(m) : ex \in _dfs_is_connected(o, r, {})}

\* self._adjacency_map.values(): the mapped vertex objects in insertion order
MapValues(m) == [i \in DOMAIN m |-> m[i].vertex]

\* sum((len(v.edges) for v in vs))
RECURSIVE SumOfLens(_, _)
SumOfLens(o, vs) ==
    IF vs = <<>> THEN 0 ELSE Cardinality(o[Head(vs)].edges) + SumOfLens(o, Tail(vs))

\* UndirectedGraph.edge_count
edge_count(m, o, unique) ==
    IF unique THEN Cardinality(UnionAll(o, MapValues(m), {}))
    ELSE SumOfLens(o, MapValues(m))

QIdle ==
    /\ container = <<>>
    /\ keyfn = "identity"
    /\ reverse = FALSE
    /\ qret = QCall("init", <<>>, <<>>, "none")

\* _BaseGraph.__init__.  The seed is one fixed value here: in a set of edges
\* the hash only preselects the entries that == is asked about, and two
\* edges that are == have the same hash under every seed.
GInit ==
    /\ adjacency_map = <<>>
    /\ root = NoVertex
    /\ objs = <<>>
    /\ gret = GCall("init", <<>>, "none", FALSE, 0, <<>>)
    /\ hashseed = 0

\* The graph's runs are sequences of add_vertex and add_edge calls followed by
\* at most one query: a query leaves every variable of the graph as it is, so
\* what can follow it is what can follow the state it was made in.
Building == gret.op \in {"init", "add_vertex", "add_edge"}

AddVertex(value, dst, weight) ==
    \E r \in {add_vertex(adjacency_map, root, objs, value, dst, weight)} :
    /\ Building
    /\ WithinBounds(r.objs)
    /\ adjacency_map' = r.map
    /\ root' = r.root
    /\ objs' = r.objs
    /\ gret' = GCall("add_vertex", <<>>, "none", FALSE, 0, <<>>)
    /\ UNCHANGED hashseed
    /\ UNCHANGED qvars

AddEdge(origin, dst, weight) ==
    \E r \in {add_edge(adjacency_map, objs, origin, dst, weight)} :
    /\ Building
    /\ WithinBounds(r.objs)
    /\ objs' = r.objs
    /\ gret' = GCall("add_edge", <<>>, r.err, FALSE, 0, <<>>)
    /\ UNCHANGED <<adjacency_map, root, hashseed>>
    /\ UNCHANGED qvars

\* mutant of HasEdge: the edge is looked for by adding it
HasEdge_by_adding(origin, dst, weight) ==
    \E r \in {has_edge(adjacency_map, objs, origin, dst, weight)} :
    /\ Building
    /\ WithinBounds(add_edge(adjacency_map, objs, origin, dst, weight).objs)
    /\ objs' = add_edge(adjacency_map, objs, origin, dst, weight).objs
    /\ gret' = GCall("has_edge", <<origin, dst, weight>>, r.err, r.b, 0, <<>>)
    /\ UNCHANGED <<adjacency_map, root, hashseed>>
    /\ UNCHANGED qvars

HasEdge(origin, dst, weight) ==
    \E r \in {has_edge(adjacency_map, objs, origin, dst, weight)} :
    /\ Building
    /\ gret' = GCall("has_edge", <<origin, dst, weight>>, r.err, r.b, 0, <<>>)
    /\ UNCHANGED <<adjacency_map, root, objs, hashseed>>
    /\ UNCHANGED qvars

IsReachable(origin, dst) ==
    \E r \in is_reachable(adjacency_map, objs, origin, dst) :
    /\ Building
    /\ gret' = GCall("is_reachable", <<origin, dst>>, r.err, r.b, 0, <<>>)
    /\ UNCHANGED <<adjacency_map, root, objs, hashseed>>
    /\ UNCHANGED qvars

Dijkstra(origin, dst) ==
    \E r \in {dijkstra(adjacency_map, objs, origin, dst)} :
    /\ Building
    /\ gret' = GCall("dijkstra", <<origin, dst>>, r.err, FALSE, r.pops, r.path)
    /\ UNCHANGED <<adjacency_map, root, objs, hashseed>>
    /\ UNCHANGED qvars

BellmanFord(origin, dst) ==
    \E r \in bellman_ford(adjacency_map, objs, origin, dst) :
    /\ Building
    /\ gret' = GCall("bellman_ford", <<origin, dst>>, r.err, FALSE, 0, r.path)
    /\ UNCHANGED <<adjacency_map, root, objs, hashseed>>
    /\ UNCHANGED qvars

IsConnected ==
    \E b \in is_connected(adjacency_map, root, objs) :
    /\ Building
    /\ gret' = GCall("is_connected", <<>>, "none", b, 0, <<>>)
    /\ UNCHANGED <<adjacency_map, root, objs, hashseed>>
    /\ UNCHANGED qvars

EdgeCountCall(unique) ==
    \E n \in {edge_count(adjacency_map, objs, unique)} :
    /\ Building
    /\ gret' = GCall(IF unique THEN "edge_count(unique=True)" ELSE "edge_count(unique=False)",
                     <<>>, "none", FALSE, n, <<>>)
    /\ UNCHANGED <<adjacency_map, root, objs, hashseed>>
    /\ UNCHANGED qvars

\* _BaseGraph.vertices: list(self._adjacency_map.values()), recorded as the
\* values of the vertices listed
Vertices ==
    /\ Building
    /\ gret' = GCall("vertices", <<>>, "none", FALSE, 0,
                     [i \in DOMAIN adjacency_map |-> objs[MapValues(adjacency_map)[i]].value])
    /\ UNCHANGED <<adjacency_map, root, objs, hashseed>>
    /\ UNCHANGED qvars

\* UndirectedGraph.edges, recorded as the size of the set returned
Edges ==
    /\ Building
    /\ gret' = GCall("edges", <<>>, "none", FALSE, Cardinality(edges(adjacency_map, objs)), <<>>)
    /\ UNCHANGED <<adjacency_map, root, objs, hashseed>>
    /\ UNCHANGED qvars

InitGraph == GInit /\ QIdle

NextGraph ==
    \/ \E value \in Values, weight \in Weights : AddVertex(value, NoDst, weight)
    \/ \E value \in Values, dst \in Values, weight \in Weights : AddVertex(value, dst, weight)
    \/ \E origin \in Values, dst \in Values, weight \in Weights : AddEdge(origin, dst, weight)
    \/ \E origin \in Values, dst \in Values, weight \in Weights : HasEdge(origin, dst, weight)
    \/ \E origin \in Values, dst \in Values : IsReachable(origin, dst)
    \/ \E origin \in Values, dst \in Values : Dijkstra(origin, dst)
    \/ \E origin \in Values, dst \in Values : BellmanFord(origin, dst)
    \/ IsConnected
    \/ \E unique \in BOOLEAN : EdgeCountCall(unique)
    \/ Vertices
    \/ Edges

SpecGraph == InitGraph /\ [][NextGraph]_vars

(***************************************************************************)
(* The graph's traversals on three vertex values: edges of one weight, and *)
(* the calls that build the graph, traverse it and count its edges.        *)
(***************************************************************************)
Values3 == {1, 2, 3}
UnitWeights == {1}

NextGraph3 ==
    \/ \E value \in Values3, weight \in UnitWeights : AddVertex(value, NoDst, weight)
    \/ \E value \in Values3, dst \in Values3, weight \in UnitWeights : AddVertex(value, dst, weight)
    \/ \E origin \in Values3, dst \in Values3, weight \in UnitWeights : AddEdge(origin, dst, weight)
    \/ \E origin \in Values3, dst \in Values3 : IsReachable(origin, dst)
    \/ IsConnected
    \/ \E unique \in BOOLEAN : EdgeCountCall(unique)

SpecGraph3 == InitGraph /\ [][NextGraph3]_vars

(***************************************************************************)
(* Edges on their own: vertices are made, and two edges between them are   *)
(* compared and hashed, under any seed of the string hash.                 *)
(***************************************************************************)
Seeded ==
    /\ adjacency_map = <<>>
    /\ root = NoVertex
    /\ objs = <<>>
    /\ gret = GCall("init", <<>>, "none", FALSE, 0, <<>>)
    /\ hashseed \in Seeds

\* Vertex(value)
NewVertex(value) ==
    /\ Len(objs) < MaxObjs
    /\ objs' = Append(objs, Vertex(value))
    /\ gret' = GCall("Vertex", <<value>>, "none", FALSE, 0, <<>>)
    /\ UNCHANGED <<adjacency_map, root, hashseed>>
    /\ UNCHANGED qvars

\* e1 = Edge(a, b, w1); e2 = Edge(c, d, w2); e1 == e2, hash(e1), hash(e2).
\* A comparison changes no object, so what can follow it is what can follow
\* the state it was made in: it is taken after a Vertex() call only.
CompareEdges(a, b, w1, c, d, w2) ==
    LET e1 == Edge(a, b, w1)
        e2 == Edge(c, d, w2)
    IN  /\ gret.op = "Vertex"
        /\ gret' = GCall("Edge.__eq__", <<a, b, w1, c, d, w2>>, "none",
                         UndirectedEdge_eq(objs, e1, e2), 0,
                         <<UndirectedEdge_hash(objs, e1), UndirectedEdge_hash(objs, e2)>>)
        /\ UNCHANGED <<adjacency_map, root, objs, hashseed>>
        /\ UNCHANGED qvars

InitEdge == Seeded /\ QIdle

NextEdge ==
    \/ \E value \in Values : NewVertex(value)
    \/ \E a \in DOMAIN objs, b \in DOMAIN objs, c \in DOMAIN objs, d \in DOMAIN objs,
          w1 \in Weights, w2 \in Weights : CompareEdges(a, b, w1, c, d, w2)

SpecEdge == InitEdge /\ [][NextEdge]_vars

(***************************************************************************)
(* The graph's properties.                                                 *)
(***************************************************************************)
\* the value of vertex object v
ValueOf(v) == objs[v].value

\* the vertex object that the graph maps value A to stores an edge from A to
\* B of weight w
StoresEdge(m, o, A, B, w) ==
    \E e \in o[Lookup(m, A)].edges :
        o[e.origin].value = A /\ o[e.destination].value = B /\ e.weight = w

\* the number of entries of the incident edge set of the vertex mapped to A
EdgeCount(m, o, A) == Cardinality(o[Lookup(m, A)].edges)

\* C5: for any undirected edge e = Edge(A, B, w), the reversed edge
\* Edge(B, A, w) compares equal to e and has the same hash as e; edges with
\* the same endpoints but different weights compare unequal.
C5_ReversedEdgeEqual ==
    gret.op = "Edge.__eq__" =>
        LET A == ValueOf(gret.args[1])
            B == ValueOf(gret.args[2])
            w1 == gret.args[3]
            C == ValueOf(gret.args[4])
            D == ValueOf(gret.args[5])
            w2 == gret.args[6]
        IN  /\ (C = B /\ D = A /\ w1 = w2) => (gret.b /\ gret.path[1] = gret.path[2])
            /\ ({C, D} = {A, B} /\ w1 # w2) => ~gret.b

\* C5's case: an edge between vertices of different values compared with its
\* reverse, under a seed other than the first
C5_Witness ==
    /\ gret.op = "Edge.__eq__"
    /\ ValueOf(gret.args[1]) # ValueOf(gret.args[2])
    /\ ValueOf(gret.args[4]) = ValueOf(gret.args[2])
    /\ ValueOf(gret.args[5]) = ValueOf(gret.args[1])
    /\ gret.args[3] = gret.args[6]
    /\ gret.b
    /\ hashseed # 0

\* C6: every operation that references a vertex value absent from the graph
\* (add_edge, has_edge, is_reachable, dijkstra, bellman_ford, with either
\* endpoint absent) fails with the vertex-not-found error, and the graph
\* (vertex mapping, root and every incident edge set) is the same after the
\* failed call as before it.
C6_AbsentVertexFails ==
    [][/\ \A a \in Values, b \in Values, w \in Weights :
             (AddEdge(a, b, w) /\ ~({a, b} \subseteq Keys(adjacency_map)))
                 => (gret'.err = VertexNotFound
                     /\ <<adjacency_map, root, objs>>' = <<adjacency_map, root, objs>>)
       /\ (gret'.op \in {"has_edge", "is_reachable", "dijkstra", "bellman_ford"}
           /\ ~({gret'.args[1], gret'.args[2]} \subseteq Keys(adjacency_map)))
             => (gret'.err = VertexNotFound
                 /\ <<adjacency_map, root, objs>>' = <<adjacency_map, root, objs>>)]_vars

\* C7: no dangling edges: after any sequence of add_vertex and add_edge
\* calls (failed ones included), for every vertex in the graph's mapping and
\* every edge in its incident set, the values of the edge's origin and
\* destination are both keys of the mapping.
C7_NoDanglingEdges ==
    \A i \in DOMAIN adjacency_map :
        \A e \in objs[adjacency_map[i].vertex].edges :
            /\ ValueOf(e.origin) \in Keys(adjacency_map)
            /\ ValueOf(e.destination) \in Keys(adjacency_map)

\* C7's case: add_edge has just failed on a graph that has edges
C7_Witness ==
    /\ gret.op = "add_edge" /\ gret.err = VertexNotFound
    /\ \E i \in DOMAIN adjacency_map : objs[adjacency_map[i].vertex].edges # {}

\* C8: the two directional copies of an undirected edge never desynchronize:
\* for all vertex values A, B and weights w, the vertex the graph maps A to
\* stores an edge A->B of weight w if and only if the vertex the graph maps B
\* to stores an edge B->A of weight w.
C8_CopiesInSync ==
    \A A \in Keys(adjacency_map), B \in Keys(adjacency_map), w \in Weights :
        StoresEdge(adjacency_map, objs, A, B, w) <=> StoresEdge(adjacency_map, objs, B, A, w)

\* C9: add_edge is idempotent: add_edge(origin, dst, weight) when an edge
\* with the same endpoints and the same weight already exists leaves the
\* incident edge sets of origin and dst with as many entries as they had.
C9_AddEdgeIdempotent ==
    [][\A a \in Values, b \in Values, w \in Weights :
          (/\ AddEdge(a, b, w)
           /\ {a, b} \subseteq Keys(adjacency_map)
           /\ StoresEdge(adjacency_map, objs, a, b, w)
           /\ StoresEdge(adjacency_map, objs, b, a, w))
              => /\ EdgeCount(adjacency_map', objs', a) = EdgeCount(adjacency_map, objs, a)
                 /\ EdgeCount(adjacency_map', objs', b) = EdgeCount(adjacency_map, objs, b)]_vars

\* C10: after a successful add_edge(a, b, w) with a # b, has_edge(a, b, w)
\* and has_edge(b, a, w) both return True, and has_edge(a, b, w2) returns
\* False for any weight w2 # w that was never added between a and b.
C10_HasEdgeAfterAddEdge ==
    [][\A a \in Values, b \in Values, w \in Weights :
          (AddEdge(a, b, w) /\ gret'.err = "none" /\ a # b)
              => /\ has_edge(adjacency_map', objs', a, b, w).b
                 /\ has_edge(adjacency_map', objs', b, a, w).b
                 /\ \A w2 \in Weights \ {w} :
                        (/\ ~StoresEdge(adjacency_map', objs', a, b, w2)
                         /\ ~StoresEdge(adjacency_map', objs', b, a, w2))
                            => ~has_edge(adjacency_map', objs', a, b, w2).b]_vars

(***************************************************************************)
(* Paths.  What the graph stores, read off the mapped vertex objects: the  *)
(* directional edges as <<origin value, destination value, weight>>.       *)
(***************************************************************************)
StoredEdges(m, o) ==
    {<<o[e.origin].value, o[e.destination].value, e.weight>> :
        e \in UNION {o[v].edges : v \in vertices(m)}}

\* the values that a path of stored edges leads to from a value of S
RECURSIVE ReachableFrom(_, _, _)
ReachableFrom(m, o, S) ==
    LET next == S \cup {t[2] : t \in {x \in StoredEdges(m, o) : x[1] \in S}}
    IN  IF next = S THEN S ELSE ReachableFrom(m, o, next)

NonNegative(m, o) == \A t \in StoredEdges(m, o) : t[3] >= 0

Least(S) == CHOOSE x \in S : \A y \in S : x <= y

\* the weight of the lightest stored edge from A to B
StepWeight(m, o, A, B) ==
    Least({t[3] : t \in {x \in StoredEdges(m, o) : x[1] = A /\ x[2] = B}})

\* p (a sequence of values) starts at A, ends at B and goes along stored edges
ValidPath(m, o, p, A, B) ==
    /\ Len(p) >= 1
    /\ p[1] = A
    /\ p[Len(p)] = B
    /\ \A i \in 1..(Len(p) - 1) :
           \E t \in StoredEdges(m, o) : t[1] = p[i] /\ t[2] = p[i + 1]

RECURSIVE PathWeight(_, _, _)
PathWeight(m, o, p) ==
    IF Len(p) <= 1 THEN 0
    ELSE StepWeight(m, o, p[1], p[2]) + PathWeight(m, o, Tail(p))

\* the least total weight of a path of at most k stored edges from A to B
RECURSIVE DistWithin(_, _, _, _, _)
DistWithin(m, o, A, B, k) ==
    IF k = 0 THEN (IF A = B THEN 0 ELSE Inf)
    ELSE Least({DistWithin(m, o, A, B, k - 1)} \cup
               {Plus(DistWithin(m, o, A, t[1], k - 1), t[3]) :
                    t \in {x \in StoredEdges(m, o) : x[2] = B}})

\* C11: for a graph with non-negative weights and dst reachable from origin,
\* dijkstra(origin, dst) returns a sequence of vertices that starts at
\* origin, ends at dst, joins consecutive vertices by stored edges and has
\* minimum total weight among all such paths.
C11_DijkstraShortestPath ==
    (/\ gret.op = "dijkstra"
     /\ {gret.args[1], gret.args[2]} \subseteq Keys(adjacency_map)
     /\ NonNegative(adjacency_map, objs)
     /\ gret.args[2] \in ReachableFrom(adjacency_map, objs, {gret.args[1]}))
        => /\ gret.err = "none"
           /\ ValidPath(adjacency_map, objs, gret.path, gret.args[1], gret.args[2])
           /\ PathWeight(adjacency_map, objs, gret.path)
                = DistWithin(adjacency_map, objs, gret.args[1], gret.args[2],
                             Len(adjacency_map) - 1)

\* C12: for a graph with no negative edges and any origin o and destination
\* d present in the graph, dijkstra(o, d) and bellman_ford(o, d) return paths
\* of equal total weight.
C12_DijkstraAgreesWithBellmanFord ==
    (/\ gret.op = "dijkstra"
     /\ {gret.args[1], gret.args[2]} \subseteq Keys(adjacency_map)
     /\ NonNegative(adjacency_map, objs))
        => /\ gret.err = "none"
           /\ \A bf \in bellman_ford(adjacency_map, objs, gret.args[1], gret.args[2]) :
                  /\ bf.err = "none"
                  /\ PathWeight(adjacency_map, objs, gret.path)
                       = PathWeight(adjacency_map, objs, bf.path)

\* a cycle of stored directional edges with negative total weight can be
\* reached from A: a closed walk of at most |V| edges, from a value reachable
\* from A back to it, weighs less than 0
NegativeCycleReachable(m, o, A) ==
    \E B \in ReachableFrom(m, o, {A}) : DistWithin(m, o, B, B, Len(m)) < 0

\* C13: bellman_ford(origin, dst) fails with the negative-weight-cycle error
\* whenever the graph contains a cycle of stored directional edges reachable
\* from origin with negative total weight (the cycle A->B->A formed by the
\* two copies of a negative undirected edge included); it does not return a
\* path in that case.
C13_NegativeCycleRaises ==
    (/\ gret.op = "bellman_ford"
     /\ gret.args[1] \in Keys(adjacency_map)
     /\ NegativeCycleReachable(adjacency_map, objs, gret.args[1]))
        => gret.err = NegativeWeightCycle

\* C14: when the graph contains no negative-total-weight cycle reachable
\* from origin, bellman_ford(origin, dst) does not raise, and for every dst
\* reachable from origin it returns a valid path: a sequence starting at
\* origin, ending at dst, whose consecutive vertices are joined by stored
\* edges.
C14_BellmanFordValidPath ==
    (/\ gret.op = "bellman_ford"
     /\ {gret.args[1], gret.args[2]} \subseteq Keys(adjacency_map)
     /\ ~NegativeCycleReachable(adjacency_map, objs, gret.args[1]))
        => /\ gret.err = "none"
           /\ gret.args[2] \in ReachableFrom(adjacency_map, objs, {gret.args[1]})
                => ValidPath(adjacency_map, objs, gret.path, gret.args[1], gret.args[2])

\* a path of stored edges leads from every vertex value to every other
AllPairsJoined(m, o) ==
    \A A \in Keys(m), B \in Keys(m) : B \in ReachableFrom(m, o, {A})

\* C15: is_connected() returns True exactly when the graph is non-empty and
\* there is a path of stored edges between every pair of vertices; an empty
\* graph gives False, a single-vertex graph gives True.
C15_IsConnected ==
    gret.op = "is_connected" =>
        (gret.b <=> (Len(adjacency_map) > 0 /\ AllPairsJoined(adjacency_map, objs)))

\* C16: for any two vertex values origin and dst present in the graph,
\* is_reachable(origin, dst) returns True exactly when a path of edges stored
\* in the graph's vertices leads from origin to dst (True when origin equals
\* dst).
C16_IsReachable ==
    (gret.op = "is_reachable" /\ {gret.args[1], gret.args[2]} \subseteq Keys(adjacency_map))
        => /\ gret.err = "none"
           /\ gret.b <=> (gret.args[2] \in ReachableFrom(adjacency_map, objs, {gret.args[1]}))

\* the distinct undirected edges stored: unordered pair of endpoint values,
\* and weight
UndirectedEdges(m, o) == {<<{t[1], t[2]}, t[3]>> : t \in StoredEdges(m, o)}

\* C17: edge_count(unique=True) equals the number of distinct undirected
\* edges (distinct unordered endpoint pair plus weight), and
\* edge_count(unique=False) counts every undirected edge twice, so that
\* edge_count(unique=False) = 2 * edge_count(unique=True).
C17_EdgeCount ==
    /\ gret.op = "edge_count(unique=True)"
           => gret.n = Cardinality(UndirectedEdges(adjacency_map, objs))
    /\ gret.op = "edge_count(unique=False)"
           => gret.n = 2 * edge_count(adjacency_map, objs, TRUE)

\* C18: add_vertex only ever adds: after
\* add_vertex(value, dst, weight) every vertex value that was in the graph
\* before is still mapped, to the same vertex object, whose incident edge
\* set contains every edge it contained before, and the edge between value
\* and dst is present; add_vertex(value) with no dst on a value already
\* present leaves the graph unchanged.
C18_AddVertexOnlyAdds ==
    [][\A value \in Values, dst \in Values \cup {NoDst}, weight \in Weights :
          AddVertex(value, dst, weight)
              => /\ \A k \in Keys(adjacency_map) :
                        /\ k \in Keys(adjacency_map')
                        /\ Lookup(adjacency_map', k) = Lookup(adjacency_map, k)
                        /\ objs[Lookup(adjacency_map, k)].edges
                               \subseteq objs'[Lookup(adjacency_map', k)].edges
                 /\ dst # NoDst
                        => /\ StoresEdge(adjacency_map', objs', value, dst, weight)
                           /\ StoresEdge(adjacency_map', objs', dst, value, weight)
                 /\ (dst = NoDst /\ value \in Keys(adjacency_map))
                        => <<adjacency_map, root, objs>>' = <<adjacency_map, root, objs>>]_vars

\* C19: vertices are shared by reference: the root is the vertex object the
\* mapping holds for the first value ever added, and the origin and
\* destination of every edge stored in any mapped vertex are the very vertex
\* objects the mapping holds for those values.
C19_SharedByReference ==
    /\ Len(adjacency_map) > 0 => root = adjacency_map[1].vertex
    /\ \A v \in vertices(adjacency_map) :
           \A e \in objs[v].edges :
               /\ e.origin = Lookup(adjacency_map, ValueOf(e.origin))
               /\ e.destination = Lookup(adjacency_map, ValueOf(e.destination))

\* C20: remove(position) fails when the queue is empty or when position is
\* outside 0..len-1 (negative positions included), and in every failing case
\* the queue's contents and their internal order are unchanged.
C20_RemoveOutOfRange ==
    [][\A index \in -1..MaxQueue :
          Remove(index)
              => /\ (Len(container) = 0 \/ index < 0 \/ index >= Len(container))
                        => qret'.err # "none"
                 /\ qret'.err # "none" => container' = container]_vars

\* C20's case: a negative position refused on a queue of several items
C20_Witness ==
    /\ qret.op = "remove" /\ qret.arg = <<-1>> /\ qret.err = "IndexError"
    /\ Len(container) >= 2

(***************************************************************************)
(* The construction of a PriorityQueue, as __init__ really runs.  The key  *)
(* and the reverse flag to be given are fixed at the start; no queue       *)
(* object exists until __init__ returns.                                   *)
(***************************************************************************)
\* PriorityQueue(iterable, key=..., reverse=...): the error __init__ ends
\* with ("none" if it returns) and the list of the object made
PriorityQueue_new(iterable) ==
    IF PriorityQueue_init # "none" THEN [err |-> PriorityQueue_init, c |-> <<>>]
    ELSE [err |-> "none", c |-> InitialContainer(iterable)]

Unconstructed ==
    /\ keyfn \in KeyFns
    /\ reverse \in BOOLEAN
    /\ container = <<>>
    /\ qret = QCall("none", <<>>, <<>>, "none")

Construct(iterable) ==
    \E r \in {PriorityQueue_new(iterable)} :
    /\ container' = r.c
    /\ qret' = QCall("__init__", iterable, <<>>, r.err)
    /\ UNCHANGED <<keyfn, reverse>>
    /\ UNCHANGED gvars

InitCtor == Unconstructed /\ GIdle

NextCtor == \E iterable \in SeqsUpTo(MaxInit) : Construct(iterable)

SpecCtor == InitCtor /\ [][NextCtor]_vars

\* C21: constructing a PriorityQueue from an optional initial collection, a
\* callable key function and a reverse flag completes without error and
\* yields a queue whose contents are exactly the multiset of the initial
\* items and which satisfies the heap invariant under the selected ordering.
C21_ConstructionSucceeds ==
    qret.op = "__init__" =>
        /\ qret.err = "none"
        /\ BagOf(container) = BagOf(qret.arg)
        /\ HeapInvariant(container)

\* C22: for a non-empty queue and any position i in 0..len-1, remove(i)
\* removes exactly the element stored at position i: the multiset of contents
\* afterwards is the previous multiset minus one occurrence of that element,
\* the length decreases by one, and the heap invariant holds again (also
\* when i is the last position or the root).
C22_RemoveAtPosition ==
    [][\A index \in 0..(Len(container) - 1) :
          Remove(index)
              => /\ qret'.err = "none"
                 /\ BagOf(container') (+) BagOf(<<At(container, index)>>) = BagOf(container)
                 /\ Len(container') = Len(container) - 1
                 /\ HeapInvariant(container')]_vars

\* C22's case: the last position of a queue of several different items has
\* been removed (the position removed is the length the list has now)
C22_Witness ==
    /\ qret.op = "remove" /\ qret.err = "none"
    /\ qret.arg = <<Len(container)>>
    /\ Len(container) >= 3
    /\ \E i \in DOMAIN container : container[i] # container[1]

\* C23: find(item) returns -1 exactly when no element of the queue equals
\* item; otherwise it returns a position i in 0..len-1 such that the element
\* stored at i equals item, so that remove(find(item)) removes an occurrence
\* of item; find never modifies the queue.
C23_Find ==
    [][\A item \in Items :
          Find(item)
              => LET i == qret'.val[1] IN
                 /\ i = -1 <=> ~\E k \in DOMAIN container : container[k] = item
                 /\ i # -1 =>
                        /\ 0 <= i /\ i < Len(container)
                        /\ At(container, i) = item
                        /\ remove(container, i).err = "none"
                        /\ BagOf(remove(container, i).c) (+) BagOf(<<item>>) = BagOf(container)
                 /\ container' = container]_vars

\* C23's case: an item found below the root
C23_Witness ==
    /\ qret.op = "find"
    /\ Len(container) >= 2
    /\ qret.val[1] >= 1
    /\ At(container, qret.val[1]) = qret.arg[1]

\* C24: when dst is present but not reachable from origin (and origin # dst),
\* dijkstra(origin, dst) and bellman_ford(origin, dst) do not fail:
\* predecessor-chain reconstruction yields a path that ends at dst and does
\* not begin at origin.
C24_UnreachableDestination ==
    (/\ gret.op \in {"dijkstra", "bellman_ford"}
     /\ {gret.args[1], gret.args[2]} \subseteq Keys(adjacency_map)
     /\ gret.args[1] # gret.args[2]
     /\ gret.args[2] \notin ReachableFrom(adjacency_map, objs, {gret.args[1]}))
        => /\ gret.err = "none"
           /\ Len(gret.path) >= 1
           /\ gret.path[Len(gret.path)] = gret.args[2]
           /\ gret.path[1] # gret.args[1]

\* C25: dijkstra(origin, dst) terminates for every graph and every choice of
\* weights, negative weights and self-loops included: the main loop pops
\* each vertex exactly once, and the predecessor chain followed from dst
\* ends, so that the call returns.
C25_DijkstraPopsEachVertexOnce ==
    (gret.op = "dijkstra" /\ {gret.args[1], gret.args[2]} \subseteq Keys(adjacency_map))
        => /\ gret.err = "none"
           /\ gret.n = Len(adjacency_map)

\* the calls that only ask
Queries ==
    {"vertices", "edges", "edge_count(unique=True)", "edge_count(unique=False)",
     "has_edge", "is_connected", "is_reachable", "dijkstra", "bellman_ford"}

\* C26: the query operations vertices, edges, edge_count, has_edge,
\* is_connected, is_reachable, dijkstra and bellman_ford leave the graph
\* unchanged, whether they succeed or fail: the vertex mapping, the root,
\* every vertex's incident edge set and every edge weight are the same after
\* the call as before.
C26_QueriesLeaveGraphUnchanged ==
    [][gret'.op \in Queries
          => <<adjacency_map, root, objs>>' = <<adjacency_map, root, objs>>]_vars

\* C26's case: a query has failed on a graph that has edges
C26_Witness ==
    /\ gret.op \in Queries
    /\ gret.err # "none"
    /\ \E i \in DOMAIN adjacency_map : objs[adjacency_map[i].vertex].edges # {}

\* C27: for any graph built by any sequence of add_vertex and add_edge
\* calls, edge_count(unique=True) equals the number of edges in the set
\* returned by edges(), regardless of the order in which vertices were
\* inserted.
C27_EdgeCountEqualsEdges ==
    /\ gret.op = "edge_count(unique=True)" => gret.n = Cardinality(edges(adjacency_map, objs))
    /\ gret.op = "edges" => gret.n = edge_count(adjacency_map, objs, TRUE)

\* C28: reachability in the undirected graph is symmetric: for any two
\* vertex values a and b present in the graph, is_reachable(a, b) equals
\* is_reachable(b, a).
C28_ReachabilitySymmetric ==
    (gret.op = "is_reachable" /\ {gret.args[1], gret.args[2]} \subseteq Keys(adjacency_map))
        => \A r \in is_reachable(adjacency_map, objs, gret.args[2], gret.args[1]) :
               r.b = gret.b

\* C29: two separately constructed edges with the same origin, the same
\* destination and the same weight (Edge(A, B, w) and another Edge(A, B, w),
\* A # B) compare equal, with equal hashes.
C29_SameEdgesEqual ==
    (/\ gret.op = "Edge.__eq__"
     /\ gret.args[1] = gret.args[4]
     /\ gret.args[2] = gret.args[5]
     /\ gret.args[3] = gret.args[6])
        => gret.b /\ gret.path[1] = gret.path[2]

\* C30: popping a queue until it is empty yields its elements in priority
\* order: for any queue reached by any sequence of push, pop and remove
\* calls, in the sequence of values returned by successive pop() calls no
\* later value's key dominates an earlier value's key under the configured
\* ordering, and the sequence is a permutation of the queue's contents.
C30_PopsInPriorityOrder ==
    /\ OrderedByPriority(PopAll(container))
    /\ BagOf(PopAll(container)) = BagOf(container)

\* C30's case: after a pop, a queue of four or more items with different
\* keys whose list is not itself in pop order
C30_Witness ==
    /\ qret.op = "pop" /\ qret.err = "none"
    /\ Len(container) >= 4
    /\ \E i \in DOMAIN container : KeyOf(container[i]) # KeyOf(container[1])
    /\ PopAll(container) # container

====
